---- MODULE Spec2Model ----
(***************************************************************************)
(* A model of math-renderer (src/math-renderer.js, src/index.js): the     *)
(* incremental pipeline that mirrors the source tree into the destination *)
(* tree, its content-hash cache, and the DOM math-substitution engine.    *)
(*                                                                         *)
(* Four specifications share the module:                                   *)
(*   Spec      the pipeline, run after run, over a small source tree;     *)
(*   SpecCli   the same, started with the options of index.js;            *)
(*   SpecDom   processHtml/processNode over bounded document trees;       *)
(*   SpecText  the two regular expressions over bounded text.             *)
(***************************************************************************)
EXTENDS Integers, Sequences, FiniteSets, TLC

VARIABLES
    \* ---- the pipeline (Spec) ----
    src,            \* the source tree: path -> [kind, content]
    dest,           \* the destination tree: path -> [kind, content]
    cacheFile,      \* math-cache.json on disk: "absent" or path -> digest
    cache,          \* the in-memory cache object
    todo,           \* entries of `files` that forEach has not reached yet
    pc,             \* "idle" | "running" | "done" | "aborted"
    stat,           \* the stat counters
    force,          \* the --force option of the command line
    outcome,        \* what this run did with each entry (the per-file message)
    failed,         \* the entry whose processing threw, and in which stage
    lastWrite,      \* the parent directory at the last write or copy of process()
    persists,       \* writes of the cache file in this run
    prev,           \* the source tree as the previous run saw it
    prevEnd,        \* how the previous run ended, and where it failed
    destAtStart,    \* the destination tree when this run started
    cacheFileAtStart, \* the cache file when this run started
    \* ---- processHtml over a document (SpecDom) ----
    stack,          \* the elements the HTML parser has open, body first
    doc,            \* the parsed source document
    result,         \* what processHtml made of it
    \* ---- the regular expressions over one text (SpecText) ----
    text,           \* a text node's content
    scan            \* what the text branch of processNode made of it

pipeVars == <<src, dest, cacheFile, cache, todo, pc, stat, force, outcome,
              failed, lastWrite, persists, prev, prevEnd, destAtStart,
              cacheFileAtStart>>
domVars  == <<stack, doc, result>>
textVars == <<text, scan>>
vars     == <<pipeVars, domVars, textVars>>

(***************************************************************************)
(* Text.  A text is a sequence of tokens: a character, or the markup that *)
(* a replaced match left in the string.  The markup the typesetter and    *)
(* the template strings produce holds no `$` and ends in `>`, so for the  *)
(* regular expressions it is one token that is neither `$` nor `\`.       *)
(***************************************************************************)
Ch(c) == [c |-> c, display |-> FALSE, tex |-> <<>>]

Markup(display, tex) == [c |-> "<mjx>", display |-> display, tex |-> tex]

IsDollar(t) == t.c = "$"

IsBackslash(t) == t.c = "\\"

\* mjPage.convert throws on a notation string it cannot process; "!" stands
\* for such content.
ConvertThrows(tex) == \E i \in 1..Len(tex) : tex[i].c = "!"

\* /\$\$(.*?)\$\$/gs : the closing `$$` is the first one at or after j.
RECURSIVE DisplayClose(_, _)
DisplayClose(s, j) ==
    IF j + 1 > Len(s) THEN 0
    ELSE IF IsDollar(s[j]) /\ IsDollar(s[j + 1]) THEN j
    ELSE DisplayClose(s, j + 1)

\* The matches of displayRegex in s from position i on, leftmost first, as
\* <<open, close>>: the positions of the first `$` of each delimiter.
RECURSIVE DisplayMatches(_, _)
DisplayMatches(s, i) ==
    IF i + 3 > Len(s) THEN <<>>
    ELSE IF IsDollar(s[i]) /\ IsDollar(s[i + 1]) /\ DisplayClose(s, i + 2) # 0
         THEN <<<<i, DisplayClose(s, i + 2)>>>>
                  \o DisplayMatches(s, DisplayClose(s, i + 2) + 2)
         ELSE DisplayMatches(s, i + 1)

\* The first `$` at or after j (0: none): with ([^\$]+?) before it, the only
\* place the closing `$` of inlineRegex can be.
RECURSIVE NextDollar(_, _)
NextDollar(s, j) ==
    IF j > Len(s) THEN 0
    ELSE IF IsDollar(s[j]) THEN j
    ELSE NextDollar(s, j + 1)

\* /(?<!\\)\$([^\$]+?)\$/g matches at i: a `$` not preceded by a backslash,
\* at least one character that is not `$`, and a `$`.
InlineOpensAt(s, i) ==
    /\ IsDollar(s[i])
    /\ (i = 1 \/ ~IsBackslash(s[i - 1]))
    /\ ~IsDollar(s[i + 1])
    /\ NextDollar(s, i + 2) # 0

\* The matches of inlineRegex in s from position i on, as <<open, close>>.
RECURSIVE InlineMatches(_, _)
InlineMatches(s, i) ==
    IF i + 2 > Len(s) THEN <<>>
    ELSE IF InlineOpensAt(s, i)
         THEN <<<<i, NextDollar(s, i + 2)>>>>
                  \o InlineMatches(s, NextDollar(s, i + 2) + 1)
         ELSE InlineMatches(s, i + 1)

\* text.replace(regex, callback): every match ms[k] of s, whose delimiters are
\* w wide, replaced by the markup of its group; the rest copied.
RECURSIVE Splice(_, _, _, _, _)
Splice(s, ms, i, w, display) ==
    IF ms = <<>> THEN SubSeq(s, i, Len(s))
    ELSE SubSeq(s, i, ms[1][1] - 1)
         \o <<Markup(display, SubSeq(s, ms[1][1] + w, ms[1][2] - 1))>>
         \o Splice(s, Tail(ms), ms[1][2] + w, w, display)

\* The typesetter calls a replace makes, in order: one per match.
Calls(s, ms, w, display) ==
    [k \in 1..Len(ms) |->
        [tex |-> SubSeq(s, ms[k][1] + w, ms[k][2] - 1), display |-> display]]

\* The text branch of processNode on content s: whether either regex
\* matches, the string after the display replace, the inline matches in
\* that string, the final string, and the typesetter calls.
ProcessText(s) ==
    LET dm  == DisplayMatches(s, 1)
        mid == Splice(s, dm, 1, 2, TRUE)
        im  == InlineMatches(mid, 1)
    IN  [matched |-> dm # <<>> \/ InlineMatches(s, 1) # <<>>,
         mid     |-> mid,
         inline  |-> im,
         out     |-> Splice(mid, im, 1, 1, FALSE),
         calls   |-> Calls(s, dm, 2, TRUE) \o Calls(mid, im, 1, FALSE)]

(***************************************************************************)
(* Documents.  A node is a text node or an element; the markup a match    *)
(* was replaced by becomes, once the fragment is parsed, an element of    *)
(* its own (mjx-container for display math, svg for inline math) that     *)
(* keeps the notation it was rendered from in `text`.  The texts of the   *)
(* model hold no `<` or `&`, so parsing a fragment leaves their           *)
(* characters as they are.                                                 *)
(***************************************************************************)
TextNode(s) ==
    [type |-> "text", name |-> "#text", className |-> "", text |-> s,
     children |-> <<>>]

Elem(name, className, children) ==
    [type |-> "elem", name |-> name, className |-> className, text |-> <<>>,
     children |-> children]

\* The element the markup token m parses to.
MathNode(m) ==
    [type |-> "elem", name |-> IF m.display THEN "MJX-CONTAINER" ELSE "svg",
     className |-> "", text |-> m.tex, children |-> <<>>]

\* The length of the run of characters s starts with.
RECURSIVE RunLen(_)
RunLen(s) ==
    IF s = <<>> \/ s[1].c = "<mjx>" THEN 0 ELSE 1 + RunLen(Tail(s))

\* wrapper.innerHTML = text; wrapper.childNodes : a text node for every run
\* of characters, an element for every markup.
RECURSIVE Fragment(_)
Fragment(s) ==
    IF s = <<>> THEN <<>>
    ELSE IF s[1].c = "<mjx>" THEN <<MathNode(s[1])>> \o Fragment(Tail(s))
    ELSE <<TextNode(SubSeq(s, 1, RunLen(s)))>>
             \o Fragment(SubSeq(s, RunLen(s) + 1, Len(s)))

\* node.textContent : the texts of the node's descendants, in document order.
RECURSIVE TextContent(_), TextContentOf(_, _)
TextContent(n) ==
    IF n.type = "text" THEN n.text ELSE TextContentOf(n.children, 1)
TextContentOf(kids, i) ==
    IF i > Len(kids) THEN <<>>
    ELSE TextContent(kids[i]) \o TextContentOf(kids, i + 1)

\* The calls made until one throws, that one included.
RECURSIVE UpToThrow(_)
UpToThrow(calls) ==
    IF calls = <<>> THEN <<>>
    ELSE IF ConvertThrows(calls[1].tex) THEN <<calls[1]>>
    ELSE <<calls[1]>> \o UpToThrow(Tail(calls))

AnyThrows(calls) == \E k \in 1..Len(calls) : ConvertThrows(calls[k].tex)

\* node.className === 'latex-block'
IsLatexBlock(n) == n.className = "latex-block"

\* A mutant of IsOpaque: PRE is missing from the test.
IsOpaqueNoPre(n) == n.name \in {"SCRIPT", "CODE"}

\* The negation of the test of the last branch of processNode.
IsOpaque(n) == n.name \in {"SCRIPT", "CODE", "PRE"}

\* processNode(node).  nodes: what stands in the node's place afterwards;
\* calls: the typesetter calls, in order; needsUpdate: whether the flag was
\* set; threw: whether a call threw (the walk stops there); visited: the
\* elements processNode was called on; blocks: those the latex-block branch
\* handled.
RECURSIVE ProcessNode(_), ProcessChildren(_, _)
ProcessNode(n) ==
    IF n.type = "text" THEN
        LET r == ProcessText(n.text)
        IN  IF r.matched
            THEN [nodes |-> Fragment(r.out), calls |-> UpToThrow(r.calls),
                  needsUpdate |-> TRUE, threw |-> AnyThrows(r.calls),
                  visited |-> <<>>, blocks |-> <<>>]
            ELSE [nodes |-> <<n>>, calls |-> <<>>, needsUpdate |-> FALSE,
                  threw |-> FALSE, visited |-> <<>>, blocks |-> <<>>]
    ELSE IF IsLatexBlock(n) THEN
        LET texStr == TextContent(n)
        IN  [nodes |-> Fragment(<<Markup(TRUE, texStr)>>),
             calls |-> <<[tex |-> texStr, display |-> TRUE]>>,
             needsUpdate |-> TRUE, threw |-> ConvertThrows(texStr),
             visited |-> <<n>>, blocks |-> <<n>>]
    ELSE IF ~IsOpaque(n) THEN
        LET r == ProcessChildren(n.children, 1)
        IN  [nodes |-> <<[n EXCEPT !.children = r.nodes]>>, calls |-> r.calls,
             needsUpdate |-> r.needsUpdate, threw |-> r.threw,
             visited |-> <<n>> \o r.visited, blocks |-> r.blocks]
    ELSE [nodes |-> <<n>>, calls |-> <<>>, needsUpdate |-> FALSE,
          threw |-> FALSE, visited |-> <<n>>, blocks |-> <<>>]
\* Array.from(node.childNodes).forEach(processNode), from child i on.
ProcessChildren(kids, i) ==
    IF i > Len(kids)
    THEN [nodes |-> <<>>, calls |-> <<>>, needsUpdate |-> FALSE,
          threw |-> FALSE, visited |-> <<>>, blocks |-> <<>>]
    ELSE LET r == ProcessNode(kids[i])
         IN  IF r.threw THEN r
             ELSE LET rest == ProcessChildren(kids, i + 1)
                  IN  [nodes |-> r.nodes \o rest.nodes,
                       calls |-> r.calls \o rest.calls,
                       needsUpdate |-> r.needsUpdate \/ rest.needsUpdate,
                       threw |-> rest.threw,
                       visited |-> r.visited \o rest.visited,
                       blocks |-> r.blocks \o rest.blocks]

\* A document: the style elements with id MJX-SVG-styles in its head, and
\* what stands in the place of its body.
Document(styles, body) == [styles |-> styles, body |-> body]

\* document.head.appendChild(styleTag): one more style element with the id.
StyledHead(d, r) == d.styles + 1

\* processHtml up to its write: the walk over the body and, when the flag is
\* set, the style element.  out: the document dom.serialize() writes
\* ("copy": the source file is copied as it is).
ProcessHtml(d) ==
    LET r == ProcessNode(d.body[1])
    IN  [threw |-> r.threw, needsUpdate |-> r.needsUpdate, calls |-> r.calls,
         visited |-> r.visited, blocks |-> r.blocks,
         out |-> IF r.needsUpdate
                 THEN Document(StyledHead(d, r), r.nodes)
                 ELSE Document(d.styles, d.body)]

(***************************************************************************)
(* The file system.  A path is the sequence of names below the source     *)
(* root (blogRoot/public) or, for a target path, below the destination    *)
(* root (blogRoot/rendered-public); <<>> is the root itself.  The model   *)
(* has one directory level: d, d/a.html, the sidecar d/a.html.md5 and      *)
(* d/b.txt; in the destination tree d may also be a plain file.            *)
(***************************************************************************)
Root == <<>>

Paths == {<<"d">>, <<"d", "a.html">>, <<"d", "a.html.md5">>, <<"d", "b.txt">>}

\* path.dirname
Dirname(p) == SubSeq(p, 1, Len(p) - 1)

\* The extension the last name of p ends with.
Suffix(p) ==
    CASE p[Len(p)] = "a.html"     -> ".html"
      [] p[Len(p)] = "a.html.md5" -> ".md5"
      [] p[Len(p)] = "b.txt"      -> ".txt"
      [] OTHER                    -> ""

\* A mutant of EndsWithMd5: the sidecar test never holds.
EndsWithMd5Never(p) == FALSE

\* sourcePath.endsWith('.md5')
EndsWithMd5(p) == Suffix(p) = ".md5"

\* sourcePath.endsWith('.html')
EndsWithHtml(p) == Suffix(p) = ".html"

\* getTargetPathFrom: the same names below the destination root.
GetTargetPathFrom(p) == p

NoEntry == [kind |-> "none", content |-> ""]

DirEntry == [kind |-> "dir", content |-> ""]

FileEntry(c) == [kind |-> "file", content |-> c]

\* The contents an HTML source file may have, and the document each parses
\* to (new JSDOM(html)): no math; two math spans and a latex-block; math the
\* typesetter throws on.
HtmlContents == {"plain", "math", "bad"}

Parse(c) ==
    CASE c = "plain" ->
            Document(0, <<Elem("BODY", "", <<TextNode(<<Ch("a")>>)>>)>>)
      [] c = "math" ->
            Document(0, <<Elem("BODY", "",
                <<TextNode(<<Ch("$"), Ch("x"), Ch("$"), Ch("a"),
                             Ch("$"), Ch("$"), Ch("y"), Ch("$"), Ch("$")>>),
                  Elem("DIV", "latex-block", <<TextNode(<<Ch("z")>>)>>)>>)>>)
      [] c = "bad" ->
            Document(0, <<Elem("BODY", "",
                <<TextNode(<<Ch("$"), Ch("!"), Ch("$")>>)>>)>>)

\* The contents of the other files.
OtherContents == {"t1", "t2"}

EmptyTree == [p \in Paths |-> NoEntry]

\* The source trees: nothing, or the directory d with a.html, its sidecar
\* and b.txt.
Trees ==
    {EmptyTree}
        \cup {[EmptyTree EXCEPT ![<<"d">>] = DirEntry,
                                ![<<"d", "a.html">>] = FileEntry(h),
                                ![<<"d", "a.html.md5">>] = FileEntry("sum"),
                                ![<<"d", "b.txt">>] = FileEntry(c)] :
                h \in HtmlContents, c \in OtherContents}

\* What a destination file holds: a copy of the source content, or the
\* serialized document with its style elements.
Copy(c) == [how |-> "copy", of |-> c, styles |-> 0]

Serialized(c, d) == [how |-> "serialize", of |-> c, styles |-> d.styles]

NoContent == [how |-> "", of |-> "", styles |-> 0]

DNone == [kind |-> "none", content |-> NoContent]

DDir == [kind |-> "dir", content |-> NoContent]

DFile(c) == [kind |-> "file", content |-> c]

EmptyDest == [p \in Paths \cup {Root} |-> DNone]

\* The destination trees a first run may find: nothing, the root alone, the
\* root with d as a directory, the root with d as a file.
InitialDests ==
    { EmptyDest,
      [EmptyDest EXCEPT ![Root] = DDir],
      [EmptyDest EXCEPT ![Root] = DDir, ![<<"d">>] = DDir],
      [EmptyDest EXCEPT ![Root] = DDir, ![<<"d">>] = DFile(Copy("t1"))] }

\* fs.mkdirSync(dir, {recursive: true}): dir and every missing ancestor.
MkdirRecursive(fs, dir) ==
    [q \in DOMAIN fs |->
        IF Len(q) <= Len(dir) /\ q = SubSeq(dir, 1, Len(q)) /\ fs[q].kind = "none"
        THEN DDir ELSE fs[q]]

\* A mutant of EnsureDir: the directory is never made.
EnsureDirNoop(fs, dir) == fs

\* ensureDir: nothing when something exists at dir (fs.existsSync), else mkdir.
EnsureDir(fs, dir) ==
    IF fs[dir].kind # "none" THEN fs ELSE MkdirRecursive(fs, dir)

\* Whether fs.writeFileSync / fs.copyFileSync to p can succeed: the parent is
\* a directory and p is not one.
CanWrite(fs, p) == fs[Dirname(p)].kind = "dir" /\ fs[p].kind # "dir"

\* crypto.createHash('md5').update(content).digest('hex')
Md5(c) == <<"md5", c>>

NoDigest == <<>>

EmptyCache == [p \in Paths |-> NoDigest]

\* A mutant of IsSrcNotChanged: the new digest is not stored.
IsSrcNotChangedNoStore(c, p, newMd5) ==
    [same |-> c[p] = newMd5, cache |-> c]

\* isSrcNotChanged on cache c: whether the entry of p is the new digest, and
\* the cache afterwards.
IsSrcNotChanged(c, p, newMd5) ==
    [same  |-> c[p] = newMd5,
     cache |-> IF c[p] = newMd5 THEN c ELSE [c EXCEPT ![p] = newMd5]]

(***************************************************************************)
(* The pipeline: the top level of math-renderer.js, one entry of `files`  *)
(* per step.  forEach visits the entries in the order glob returned them;  *)
(* the model lets every order happen by taking any entry not yet visited.  *)
(***************************************************************************)
NoStat == [directories |-> 0, rendered |-> 0, copied |-> 0, skipped |-> 0,
           total |-> 0]

NoFailure == [path |-> Root, stage |-> ""]

NoWrite == [parent |-> "", parentBefore |-> ""]

NoCacheFile == [exists |-> FALSE, map |-> EmptyCache]

NoRun == [state |-> "none", failed |-> NoFailure]

idleDom == stack = <<>> /\ doc = Document(0, <<>>) /\ result = [done |-> FALSE]

idleText == text = <<>> /\ scan = [done |-> FALSE]

idlePipe ==
    /\ src = EmptyTree /\ dest = EmptyDest /\ cacheFile = NoCacheFile
    /\ cache = EmptyCache /\ todo = {} /\ pc = "idle" /\ stat = NoStat
    /\ force = FALSE /\ outcome = [p \in Paths |-> ""] /\ failed = NoFailure
    /\ lastWrite = NoWrite /\ persists = 0 /\ prev = EmptyTree
    /\ prevEnd = NoRun /\ destAtStart = EmptyDest
    /\ cacheFileAtStart = NoCacheFile

Init ==
    /\ src = EmptyTree /\ dest \in InitialDests /\ cacheFile = NoCacheFile
    /\ cache = EmptyCache /\ todo = {} /\ pc = "idle" /\ stat = NoStat
    /\ force = FALSE /\ outcome = [p \in Paths |-> ""] /\ failed = NoFailure
    /\ lastWrite = NoWrite /\ persists = 0 /\ prev = EmptyTree
    /\ prevEnd = NoRun /\ destAtStart = dest
    /\ cacheFileAtStart = NoCacheFile
    /\ idleDom /\ idleText

\* A run starts on source tree t with options.force = f: glob lists the
\* tree, the cache file is loaded.
Begin(t, f) ==
    /\ pc \in {"idle", "done", "aborted"}
    /\ src' = t
    /\ force' = f
    /\ todo' = {p \in Paths : t[p].kind # "none"}
    /\ cache' = IF cacheFile.exists THEN cacheFile.map ELSE EmptyCache
    /\ pc' = "running"
    /\ stat' = NoStat
    /\ outcome' = [p \in Paths |-> ""]
    /\ failed' = NoFailure
    /\ lastWrite' = NoWrite
    /\ persists' = 0
    /\ prev' = src
    /\ prevEnd' = [state |-> pc, failed |-> failed]
    /\ destAtStart' = dest
    /\ cacheFileAtStart' = cacheFile
    /\ UNCHANGED <<dest, cacheFile, domVars, textVars>>

\* math-renderer.js is run as it is (it reads no option); the source tree
\* may have changed since the last run.
Start == \E t \in Trees : Begin(t, FALSE)

\* An uncaught exception while entry p is processed: forEach is left, the
\* process ends; neither the cache write nor the report is reached.
Throw(p, stage) ==
    /\ pc' = "aborted"
    /\ failed' = [path |-> p, stage |-> stage]
    /\ outcome' = [outcome EXCEPT ![p] = "failed"]
    /\ todo' = todo \ {p}

Finish(p, what) ==
    /\ outcome' = [outcome EXCEPT ![p] = what]
    /\ todo' = todo \ {p}
    /\ UNCHANGED <<pc, failed>>

\* forEach hands entry p to process(); what process() leaves alone.
Entry(p) == pc = "running" /\ p \in todo

Rest == UNCHANGED <<src, cacheFile, force, persists, prev, prevEnd,
                    destAtStart, cacheFileAtStart, domVars, textVars>>

\* process(p) for a directory.
ProcessDirectory(p) ==
    /\ Entry(p) /\ Rest
    /\ src[p].kind = "dir"
    /\ dest' = EnsureDir(dest, GetTargetPathFrom(p))
    /\ stat' = [stat EXCEPT !.directories = @ + 1]
    /\ Finish(p, "dir")
    /\ UNCHANGED <<cache, lastWrite>>

\* process(p) for a .md5 sidecar: nothing.
ProcessSidecar(p) ==
    /\ Entry(p) /\ Rest
    /\ src[p].kind = "file" /\ EndsWithMd5(p)
    /\ Finish(p, "ignored")
    /\ UNCHANGED <<dest, stat, cache, lastWrite>>

\* process(p): fs.readFileSync in md5 throws (the file cannot be read).
ProcessUnreadable(p) ==
    /\ Entry(p) /\ Rest
    /\ src[p].kind = "file" /\ ~EndsWithMd5(p)
    /\ Throw(p, "hash")
    /\ UNCHANGED <<dest, stat, cache, lastWrite>>

\* process(p) for a file the cache says is unchanged.
ProcessSkip(p) ==
    /\ Entry(p) /\ Rest
    /\ src[p].kind = "file" /\ ~EndsWithMd5(p)
    /\ LET r == IsSrcNotChanged(cache, p, Md5(src[p].content))
       IN  /\ r.same
           /\ cache' = r.cache
    /\ stat' = [stat EXCEPT !.skipped = @ + 1]
    /\ Finish(p, "skipped")
    /\ UNCHANGED <<dest, lastWrite>>

\* process(p) for a changed file that is not HTML: ensureDir, count, copy.
ProcessCopy(p) ==
    /\ Entry(p) /\ Rest
    /\ src[p].kind = "file" /\ ~EndsWithMd5(p) /\ ~EndsWithHtml(p)
    /\ LET r  == IsSrcNotChanged(cache, p, Md5(src[p].content))
           tp == GetTargetPathFrom(p)
           fs == EnsureDir(dest, Dirname(tp))
       IN  /\ ~r.same
           /\ cache' = r.cache
           /\ stat' = [stat EXCEPT !.copied = @ + 1]
           /\ lastWrite' = [parent |-> fs[Dirname(tp)].kind,
                            parentBefore |-> dest[Dirname(tp)].kind]
           /\ IF CanWrite(fs, tp)
              THEN /\ dest' = [fs EXCEPT ![tp] = DFile(Copy(src[p].content))]
                   /\ Finish(p, "copied")
              ELSE /\ dest' = fs
                   /\ Throw(p, "write")

\* process(p) for a changed HTML file: ensureDir, then processHtml.
ProcessHtmlFile(p) ==
    /\ Entry(p) /\ Rest
    /\ src[p].kind = "file" /\ ~EndsWithMd5(p) /\ EndsWithHtml(p)
    /\ LET r  == IsSrcNotChanged(cache, p, Md5(src[p].content))
           tp == GetTargetPathFrom(p)
           fs == EnsureDir(dest, Dirname(tp))
           h  == ProcessHtml(Parse(src[p].content))
           w  == [parent |-> fs[Dirname(tp)].kind,
                  parentBefore |-> dest[Dirname(tp)].kind]
       IN  /\ ~r.same
           /\ cache' = r.cache
           /\ IF h.threw
              THEN /\ dest' = fs
                   /\ Throw(p, "render")
                   /\ UNCHANGED <<stat, lastWrite>>
              ELSE IF ~CanWrite(fs, tp)
              THEN /\ dest' = fs
                   /\ lastWrite' = w
                   /\ Throw(p, "write")
                   /\ UNCHANGED stat
              ELSE IF h.needsUpdate
              THEN /\ dest' = [fs EXCEPT
                            ![tp] = DFile(Serialized(src[p].content, h.out))]
                   /\ lastWrite' = w
                   /\ stat' = [stat EXCEPT !.rendered = @ + 1]
                   /\ Finish(p, "rendered")
              ELSE /\ dest' = [fs EXCEPT ![tp] = DFile(Copy(src[p].content))]
                   /\ lastWrite' = w
                   /\ stat' = [stat EXCEPT !.copied = @ + 1]
                   /\ Finish(p, "copied")

\* files.forEach(f => process(f)): the next entry, whichever it is.
Process(p) ==
    \/ ProcessDirectory(p)
    \/ ProcessSidecar(p)
    \/ ProcessUnreadable(p)
    \/ ProcessSkip(p)
    \/ ProcessCopy(p)
    \/ ProcessHtmlFile(p)

\* A mutant of AfterForEach: the cache file is written while entries remain.
AfterForEachEarly == TRUE

\* The statements after files.forEach(...) run once every entry is done.
AfterForEach == todo = {}

\* After forEach: fs.writeFileSync(cacheFile, ...), which needs the
\* destination root to exist, then stat.total and the report.
Persist ==
    /\ pc = "running" /\ AfterForEach
    /\ IF dest[Root].kind = "dir"
       THEN /\ cacheFile' = [exists |-> TRUE, map |-> cache]
            /\ persists' = persists + 1
            /\ stat' = [stat EXCEPT !.total = stat.directories + stat.rendered
                                            + stat.copied + stat.skipped]
            /\ pc' = "done"
            /\ UNCHANGED failed
       ELSE /\ pc' = "aborted"
            /\ failed' = [path |-> Root, stage |-> "persist"]
            /\ UNCHANGED <<cacheFile, persists, stat>>
    /\ UNCHANGED <<src, dest, cache, todo, force, outcome, lastWrite, prev,
                   prevEnd, destAtStart, cacheFileAtStart, domVars, textVars>>

Next == Start \/ (\E p \in Paths : Process(p)) \/ Persist

Spec == Init /\ [][Next]_vars

\* The program started through index.js: commander reads -f, --force into
\* options.force and hands the options to the renderer.
StartCli == \E t \in Trees, f \in BOOLEAN : Begin(t, f)

NextCli == StartCli \/ (\E p \in Paths : Process(p)) \/ Persist

SpecCli == Init /\ [][NextCli]_vars

(***************************************************************************)
(* SpecDom: new JSDOM(html) parses a source document whose body holds at  *)
(* most MaxNodes nodes and whose head holds at most one style element     *)
(* with the id MJX-SVG-styles; processHtml then works on the document.    *)
(***************************************************************************)
MaxNodes == 3

\* The texts of the documents: no math, and an inline span.
DomTexts == {<<Ch("a")>>, <<Ch("$"), Ch("x"), Ch("$")>>}

\* The elements of the documents: a div and the three opaque elements
\* without a class, a div and a script with class="latex-block", and a div
\* that carries the class among others (class="latex-block wide").
DomLabels ==
    {<<"DIV", "">>, <<"CODE", "">>, <<"PRE", "">>, <<"SCRIPT", "">>,
     <<"DIV", "latex-block">>, <<"SCRIPT", "latex-block">>,
     <<"DIV", "latex-block wide">>}

\* The nodes of the subtree of n, n included.
RECURSIVE NodeCount(_), NodeCountOf(_, _)
NodeCount(n) == 1 + NodeCountOf(n.children, 1)
NodeCountOf(kids, i) ==
    IF i > Len(kids) THEN 0
    ELSE NodeCount(kids[i]) + NodeCountOf(kids, i + 1)

\* The nodes parsed so far, the body apart.
NodesParsed == NodeCountOf(stack, 1) - 1

InitDom ==
    /\ idlePipe /\ idleText
    /\ stack = <<Elem("BODY", "", <<>>)>>
    /\ doc \in {Document(n, <<>>) : n \in {0, 1}}
    /\ result = [done |-> FALSE]

\* The parser reads a start tag: the element is open.  What follows the
\* start tag of a script is text, never an element.
OpenTag(l) ==
    /\ stack # <<>> /\ NodesParsed < MaxNodes
    /\ stack[Len(stack)].name # "SCRIPT"
    /\ stack' = Append(stack, Elem(l[1], l[2], <<>>))
    /\ UNCHANGED <<doc, result, pipeVars, textVars>>

\* The parser reads characters: a text node of the open element, one for
\* the whole run.
CharacterData(s) ==
    /\ stack # <<>> /\ NodesParsed < MaxNodes
    /\ LET kids == stack[Len(stack)].children
       IN  /\ IF kids = <<>> THEN TRUE ELSE kids[Len(kids)].type # "text"
           /\ stack' = [stack EXCEPT ![Len(stack)].children =
                            Append(kids, TextNode(s))]
    /\ UNCHANGED <<doc, result, pipeVars, textVars>>

\* The parser reads an end tag: the open element is a child of the one
\* around it.
CloseTag ==
    /\ Len(stack) > 1
    /\ stack' = [SubSeq(stack, 1, Len(stack) - 1) EXCEPT
                    ![Len(stack) - 1].children =
                        Append(@, stack[Len(stack)])]
    /\ UNCHANGED <<doc, result, pipeVars, textVars>>

\* The end of the body: the document is parsed.
EndOfBody ==
    /\ Len(stack) = 1
    /\ doc' = Document(doc.styles, stack)
    /\ stack' = <<>>
    /\ UNCHANGED <<result, pipeVars, textVars>>

\* processHtml(sourcePath, targetPath) on the parsed document.
Transform ==
    /\ stack = <<>> /\ doc.body # <<>> /\ ~result.done
    /\ result' = [done |-> TRUE, html |-> ProcessHtml(doc)]
    /\ UNCHANGED <<stack, doc, pipeVars, textVars>>

NextDom ==
    \/ \E l \in DomLabels : OpenTag(l)
    \/ \E s \in DomTexts : CharacterData(s)
    \/ CloseTag
    \/ EndOfBody
    \/ Transform

SpecDom == InitDom /\ [][NextDom]_vars

(***************************************************************************)
(* SpecText: the text branch of processNode over every text of at most    *)
(* MaxLen characters.                                                      *)
(***************************************************************************)
MaxLen == 5

Alphabet == {Ch("$"), Ch("\\"), Ch("a")}

Texts == UNION {[1..n -> Alphabet] : n \in 0..MaxLen}

InitText == idlePipe /\ idleDom /\ text \in Texts /\ scan = [done |-> FALSE]

\* The text branch of processNode (node.nodeType === 3) on the text.
ScanText ==
    /\ ~scan.done
    /\ scan' = [done |-> TRUE, r |-> ProcessText(text)]
    /\ UNCHANGED <<text, pipeVars, domVars>>

NextText == ScanText

SpecText == InitText /\ [][NextText]_vars

(***************************************************************************)
(* The claims.  Their own reading of "sidecar", "opaque element" and      *)
(* "carries the class" is stated here, apart from the tests of the code.  *)
(***************************************************************************)
A == <<"d", "a.html">>

B == <<"d", "b.txt">>

\* A file name that marks a .md5 sidecar.
IsSidecarName(p) == p[Len(p)] = "a.html.md5"

\* The enumerated source files that are not sidecars.
SourceFiles == {p \in Paths : src[p].kind = "file" /\ ~IsSidecarName(p)}

\* Both this run and the one before it completed.
TwoCompletedRuns == pc = "done" /\ prevEnd.state = "done"

\* C1: across two consecutive completed runs that share the cache file, a
\* source file whose hash is the same at both runs is skipped by the second
\* (counted as skipped, nothing written to its destination); one whose hash
\* differs, or whose path has no cache entry, is rendered or copied.
C1_CacheCorrect ==
    TwoCompletedRuns =>
        \A p \in SourceFiles :
            /\ (prev[p].kind = "file" /\ Md5(prev[p].content) = Md5(src[p].content))
                  => /\ outcome[p] = "skipped"
                     /\ dest[GetTargetPathFrom(p)] = destAtStart[GetTargetPathFrom(p)]
            /\ (\/ prev[p].kind = "file" /\ Md5(prev[p].content) # Md5(src[p].content)
                \/ cacheFileAtStart.map[p] = NoDigest)
                  => outcome[p] \in {"rendered", "copied"}

C1_Witness ==
    /\ TwoCompletedRuns
    /\ prev[A].kind = "file" /\ prev[A].content # src[A].content
    /\ outcome[A] = "rendered"
    /\ prev[B] = src[B] /\ outcome[B] = "skipped"
    /\ stat.skipped = 1

\* C2: with --force every enumerated source file that is not a sidecar is
\* reprocessed, never skipped, whatever the cache holds.
C2_ForceNeverSkips ==
    force => \A p \in SourceFiles : outcome[p] # "skipped"

\* C3: a second run on an unchanged source tree, with the cache the first
\* run wrote, leaves the destination tree (and the cache file in it) as the
\* first run left it and ends with rendered = 0, copied = 0 and skipped =
\* the number of source files that are not sidecars.
C3_Idempotent ==
    (TwoCompletedRuns /\ src = prev) =>
        /\ dest = destAtStart
        /\ cacheFile = cacheFileAtStart
        /\ stat.rendered = 0
        /\ stat.copied = 0
        /\ stat.skipped = Cardinality(SourceFiles)

C3_Witness ==
    /\ TwoCompletedRuns /\ src = prev
    /\ stat.skipped = 2 /\ stat.directories = 1 /\ stat.total = 3
    /\ dest[A].kind = "file" /\ dest[A].content.how = "serialize"
    /\ dest[B].kind = "file"

\* C4: a failure while one file is processed (unreadable for hashing, the
\* typesetter throws, the destination cannot be written) does not stop the
\* run: the entries after it are processed and the cache write and the
\* report are reached.
C4_FailureIsolated ==
    failed.stage \in {"hash", "render", "write"} => pc # "aborted"

\* An element whose content must not be scanned for math.
OpaqueElement(n) == n.type = "elem" /\ n.name \in {"SCRIPT", "CODE", "PRE"}

\* The document with the content of its opaque elements taken out:
\* everywhere, or only where no element with class="latex-block" is the
\* element itself or an ancestor of it.
RECURSIVE WithoutOpaqueText(_, _)
WithoutOpaqueText(n, everywhere) ==
    IF n.type = "text" THEN n
    ELSE IF ~everywhere /\ n.className = "latex-block" THEN n
    ELSE IF OpaqueElement(n) THEN [n EXCEPT !.children = <<>>]
    ELSE [n EXCEPT !.children =
              [k \in 1..Len(n.children) |->
                  WithoutOpaqueText(n.children[k], everywhere)]]

\* The outermost opaque elements of the nodes, in document order:
\* everywhere, or only outside the elements with class="latex-block".
RECURSIVE OpaqueIn(_, _, _)
OpaqueIn(nodes, i, everywhere) ==
    IF i > Len(nodes) THEN <<>>
    ELSE (IF nodes[i].type = "text" THEN <<>>
          ELSE IF ~everywhere /\ nodes[i].className = "latex-block" THEN <<>>
          ELSE IF OpaqueElement(nodes[i]) THEN <<nodes[i]>>
          ELSE OpaqueIn(nodes[i].children, 1, everywhere))
         \o OpaqueIn(nodes, i + 1, everywhere)

\* The content of the opaque elements has no part in the typesetter calls,
\* and the opaque elements are in the output as they were in the input.
OpaqueUntouched(everywhere) ==
    result.done =>
        /\ result.html.calls =
              ProcessHtml(Document(doc.styles,
                  <<WithoutOpaqueText(doc.body[1], everywhere)>>)).calls
        /\ OpaqueIn(result.html.out.body, 1, everywhere)
              = OpaqueIn(doc.body, 1, everywhere)

C6_EscapedNeverBoundary ==
    scan.done =>
        \A k \in 1..Len(scan.r.inline) :
            LET open  == scan.r.inline[k][1]
                close == scan.r.inline[k][2]
            IN  /\ ~(open > 1 /\ IsBackslash(scan.r.mid[open - 1]))
                /\ ~IsBackslash(scan.r.mid[close - 1])

\* C7: the document written for an HTML source in which a substitution
\* occurred has exactly one style element with the id MJX-SVG-styles in its
\* head.
C7_ExactlyOneStyle ==
    (result.done /\ result.html.needsUpdate) => result.html.out.styles = 1

\* The element's class list holds latex-block.
CarriesMathBlockClass(n) == n.className \in {"latex-block", "latex-block wide"}

\* C8: every element that carries the math-block class and is reached by
\* the traversal is handled as one display expression: its whole text
\* content goes to the typesetter with display mode on, its content is not
\* walked, and the needs-update flag is set.
C8_MarkedBlockIsOneDisplay ==
    result.done =>
        LET marked == SelectSeq(result.html.visited, CarriesMathBlockClass)
        IN  /\ marked = result.html.blocks
            /\ marked # <<>> => result.html.needsUpdate
            /\ \A k \in 1..Len(marked) :
                  \E c \in 1..Len(result.html.calls) :
                      result.html.calls[c] =
                          [tex |-> TextContent(marked[k]), display |-> TRUE]

\* The file that failed in the run before this one, when this run finds it
\* with the content it had then and has reached it.
RetriedFile(stages) ==
    {p \in Paths :
        /\ prevEnd.state = "aborted"
        /\ prevEnd.failed.path = p /\ prevEnd.failed.stage \in stages
        /\ src[p] = prev[p]
        /\ outcome[p] # ""}

\* The cache file is written at most once in a run and only after every
\* entry, and a run that stops on an uncaught error leaves it as it was.
WrittenOnceAtTheEnd ==
    /\ persists <= 1
    /\ persists = 1 => (todo = {} /\ pc = "done")
    /\ pc = "aborted" => cacheFile = cacheFileAtStart

\* C9 as stated: the cache file is written at most once and after every
\* entry, a run that stops leaves it as it was, and the file whose
\* processing failed, in whatever stage, is not skipped by the next run.
C9_AbortKeepsCacheAndRetries ==
    /\ WrittenOnceAtTheEnd
    /\ \A p \in RetriedFile({"hash", "render", "write"}) : outcome[p] # "skipped"

\* C9 as amended: the same, for the file whose processing failed after its
\* change check (the typesetter threw, the destination could not be
\* written): the cache file holds no fingerprint of its content, and the
\* next run does not skip it.
C9_AbortKeepsCache ==
    /\ WrittenOnceAtTheEnd
    /\ (pc = "aborted" /\ failed.stage \in {"render", "write"})
          => cacheFile.map[failed.path] # Md5(src[failed.path].content)
    /\ \A p \in RetriedFile({"render", "write"}) : outcome[p] # "skipped"

C9_Witness ==
    /\ prevEnd.state = "aborted" /\ prevEnd.failed.stage = "render"
    /\ cacheFileAtStart.exists
    /\ RetriedFile({"render"}) = {A}
    /\ outcome[A] = "failed" /\ pc = "aborted" /\ failed.stage = "render"

\* C10 as stated: at every write or copy of process() the parent of the
\* destination path is an existing directory.
C10_ParentDirExists ==
    lastWrite # NoWrite => lastWrite.parent = "dir"

\* C10 as amended: at every write or copy of process() the parent path
\* exists, as a directory unless a non-directory was there before ensureDir.
C10_ParentExists ==
    lastWrite # NoWrite =>
        /\ lastWrite.parent \in {"dir", "file"}
        /\ lastWrite.parent = "file" => lastWrite.parentBefore = "file"

\* A file is written before its directory is enumerated, into a destination
\* tree that did not even hold the root.
C10_Witness ==
    /\ lastWrite = [parent |-> "dir", parentBefore |-> "none"]
    /\ outcome[<<"d">>] = "" /\ <<"d">> \in todo
    /\ destAtStart[Root].kind = "none"
    /\ \E p \in {A, B} : outcome[p] = "copied" /\ dest[p].kind = "file"

====
